---- MODULE Spec2Model ----
(***************************************************************************)
(* Voice doll backend: the per-child conversation memory (app/memory.py),  *)
(* the AI services (app/services.py) and the /talk pipeline                *)
(* (app/routers/conversation.py, app/main.py), and the parents' accounts    *)
(* (register and login of app/main.py, app/routers/users.py and            *)
(* app/routers/auth.py over the users table of app/models.py), their       *)
(* children (app/routers/children.py) and dolls (app/routers/dolls.py).    *)
(*                                                                         *)
(* Concurrency: /talk requests are coroutines of one event loop; a request *)
(* gives the loop up only at an await that really suspends                 *)
(* (audio_file.read(), generate_content_async); the Whisper, embedding,    *)
(* Qdrant and TTS client calls are synchronous.  initialize_memory_manager *)
(* is a plain function: two callers interleave at its store calls.         *)
(***************************************************************************)
EXTENDS Integers, Sequences, FiniteSets, TLC

\* ------------------------------------------------------------------ bounds
\* /talk requests admitted in one behaviour
MaxRequests == 2
\* calls of initialize_memory_manager in one behaviour
MaxInitCalls == 2
\* points in the store when MemoryManager's methods are called directly
MaxPoints == 4
\* register and login requests admitted in one behaviour
MaxUserRequests == 3
\* rows of table children
MaxChildren == 2

\* ------------------------------------------------------------ value sets
\* the handler invocations that can be in flight together
Requests == {"r1", "r2"}
\* the concurrent callers of initialize_memory_manager
InitCallers == {"i1", "i2"}
Children == {"c1", "c2"}
\* what Whisper may return as transcription.text
Texts == {"hello", "dog"}
\* what Gemini may return as response.text
Replies == {"salam", "hapu"}
\* what Whisper returns for silence or noise: the empty text, a blank
BlankTexts == {"", " "}
\* the user_text and query_text of direct calls of MemoryManager's methods
MemTexts == {"hello", "cat", "dog"}
\* settings.doll_master_auth_token and the tokens a caller may send
MasterToken == "tok"
Tokens == {"tok", "TOK", "bad"}
\* the two /talk handlers
Entries == {"conversation", "main"}

None == "None"
Unbound == "Unbound"

\* limit=3 of client.search
SearchLimit == 3

\* the pipeline's steps, in the order of the handler
Order == <<"authenticate", "transcribe", "recall", "generate", "persist",
           "synthesize", "stream">>

VARIABLES
    collections,              \* Qdrant: does collection toy_conversations_v3 exist
    payload_index,            \* Qdrant: does the keyword index on child_id exist
    points,                   \* Qdrant: the points of the collection, in insertion order
    memory_manager,           \* app.memory.memory_manager (None or the instance)
    services_memory_manager,  \* the name memory_manager bound in app.services at import
    init,                     \* the calls of initialize_memory_manager
    initCalls,                \* how many calls were started
    createAttempts,           \* how many create_collection calls reached the store
    req,                      \* the /talk requests
    running,                  \* the request holding the event loop, or None
    arrivals,                 \* how many requests were admitted
    users,                    \* the rows of table users, in insertion order
    ureq,                     \* the register and login requests
    userArrivals,             \* how many of them were admitted
    children,                 \* the rows of table children, in insertion order
    dolls,                    \* the rows of table dolls, in insertion order
    dreq                      \* the last children or dolls request and its answer

vars == <<collections, payload_index, points, memory_manager,
          services_memory_manager, init, initCalls, createAttempts,
          req, running, arrivals, users, ureq, userArrivals,
          children, dolls, dreq>>

storeVars == <<collections, payload_index, points>>
initVars == <<memory_manager, init, initCalls, createAttempts>>
reqVars == <<req, running, arrivals>>
userVars == <<users, ureq, userArrivals>>
dollVars == <<children, dolls, dreq>>

\* ------------------------------------------------------------- embedding
\* OpenAIEmbeddings.embed_query: deterministic per text.  A vector is kept as
\* its direction (a multiple of 45 degrees); cosine similarity falls as the
\* angle between two directions grows.
embed_query(text) ==
    CASE text = "hello" -> 0
      [] text = "dog"   -> 2
      [] OTHER          -> 1

Abs(n) == IF n < 0 THEN -n ELSE n

\* Distance.COSINE score, as an order: larger is more similar
Score(qv, v) == 0 - Abs(qv - v)

\* ------------------------------------------------------------ Qdrant store
\* a mutant: the search carries no filter
MatchAnyChild(p, child_id) == TRUE

\* models.Filter(must=[FieldCondition(key="child_id", match=MatchValue(child_id))])
MatchChild(p, child_id) == p.payload.child_id = child_id

\* a mutant: the hits come in insertion order, whatever their score
Oldest(S, qv) == CHOOSE p \in S : \A o \in S : p.id <= o.id

\* the best remaining hit: highest score, the older point on a tie
Best(S, qv) ==
    CHOOSE p \in S : \A o \in S :
        \/ Score(qv, p.vector) > Score(qv, o.vector)
        \/ Score(qv, p.vector) = Score(qv, o.vector) /\ p.id <= o.id

RECURSIVE Ranked(_, _, _)
Ranked(S, qv, limit) ==
    IF S = {} \/ limit = 0 THEN << >>
    ELSE LET b == Best(S, qv)
         IN <<b>> \o Ranked(S \ {b}, qv, limit - 1)

\* a mutant: the search ranks the points of every child
searchAll(pts, qv, child_id, limit) ==
    Ranked({pts[i] : i \in 1..Len(pts)}, qv, limit)

\* client.search(collection_name, query_vector, query_filter, limit)
search(pts, qv, child_id, limit) ==
    Ranked({pts[i] : i \in {j \in 1..Len(pts) : MatchChild(pts[j], child_id)}},
           qv, limit)

\* client.upsert(collection_name, points=[p], wait=True): a point with a known
\* id is replaced, any other is added
upsert(pts, p) ==
    IF \E i \in 1..Len(pts) : pts[i].id = p.id
    THEN [i \in 1..Len(pts) |-> IF pts[i].id = p.id THEN p ELSE pts[i]]
    ELSE Append(pts, p)

\* a mutant: every point is written under one id
uuid4Fixed(pts) == 1

\* str(uuid.uuid4()): an id no stored point has
uuid4(pts) == Len(pts) + 1

\* datetime.now(timezone.utc): later than every stored created_at
now(pts) == Len(pts) + 1

\* ------------------------------------------- initialize_memory_manager
InitIdle == [pc |-> "idle", err |-> "none"]

\* a call of initialize_memory_manager, made while the application starts
\* (before it serves requests); line 21: if memory_manager is None
InitStart(i) ==
    /\ init[i].pc \in {"idle", "done", "failed"}
    /\ arrivals = 0
    /\ initCalls < MaxInitCalls
    /\ initCalls' = initCalls + 1
    /\ init' = [init EXCEPT ![i] =
                  [pc |-> IF memory_manager = None THEN "get_collections" ELSE "done",
                   err |-> "none"]]
    /\ UNCHANGED <<dollVars, userVars, storeVars, memory_manager, services_memory_manager,
                   createAttempts, reqVars>>

\* a mutant: the error of get_collections is printed and not raised again
GetCollectionsSwallow(i) ==
    /\ init[i].pc = "get_collections"
    /\ \E reachable \in BOOLEAN :
         init' = [init EXCEPT ![i] =
                    IF ~reachable THEN [pc |-> "publish", err |-> "unreachable"]
                    ELSE IF collections THEN [pc |-> "publish", err |-> "none"]
                    ELSE [pc |-> "create_collection", err |-> "none"]]
    /\ UNCHANGED <<dollVars, userVars, storeVars, memory_manager, services_memory_manager,
                   initCalls, createAttempts, reqVars>>

\* ensure_collection_exists: client.get_collections() and the membership test
GetCollections(i) ==
    /\ init[i].pc = "get_collections"
    /\ \E reachable \in BOOLEAN :
         init' = [init EXCEPT ![i] =
                    IF ~reachable THEN [pc |-> "failed", err |-> "unreachable"]
                    ELSE IF collections THEN [pc |-> "publish", err |-> "none"]
                    ELSE [pc |-> "create_collection", err |-> "none"]]
    /\ UNCHANGED <<dollVars, userVars, storeVars, memory_manager, services_memory_manager,
                   initCalls, createAttempts, reqVars>>

\* ensure_collection_exists: client.create_collection(...); the store refuses
\* a name that exists
CreateCollection(i) ==
    /\ init[i].pc = "create_collection"
    /\ \E reachable \in BOOLEAN :
         IF ~reachable
         THEN /\ init' = [init EXCEPT ![i] = [pc |-> "failed", err |-> "unreachable"]]
              /\ UNCHANGED <<collections, createAttempts>>
         ELSE /\ createAttempts' = createAttempts + 1
              /\ IF collections
                 THEN /\ init' = [init EXCEPT ![i] = [pc |-> "failed", err |-> "conflict"]]
                      /\ UNCHANGED collections
                 ELSE /\ init' = [init EXCEPT ![i] = [pc |-> "create_index", err |-> "none"]]
                      /\ collections' = TRUE
    /\ UNCHANGED <<dollVars, userVars, payload_index, points, memory_manager, services_memory_manager,
                   initCalls, reqVars>>

\* ensure_collection_exists: client.create_payload_index(field_name="child_id")
CreatePayloadIndex(i) ==
    /\ init[i].pc = "create_index"
    /\ \E reachable \in BOOLEAN :
         IF ~reachable
         THEN /\ init' = [init EXCEPT ![i] = [pc |-> "failed", err |-> "unreachable"]]
              /\ UNCHANGED payload_index
         ELSE /\ init' = [init EXCEPT ![i] = [pc |-> "publish", err |-> "none"]]
              /\ payload_index' = TRUE
    /\ UNCHANGED <<dollVars, userVars, collections, points, memory_manager, services_memory_manager,
                   initCalls, createAttempts, reqVars>>

\* line 23: memory_manager = MemoryManager(), the assignment
Publish(i) ==
    /\ init[i].pc = "publish"
    /\ memory_manager' = i
    /\ init' = [init EXCEPT ![i] = [pc |-> "done", err |-> "none"]]
    /\ UNCHANGED <<dollVars, userVars, storeVars, services_memory_manager, initCalls,
                   createAttempts, reqVars>>

\* app/services.py line 11: from .memory import memory_manager, run when the
\* module is first imported; the name keeps the value it copies
ImportServices ==
    /\ services_memory_manager = Unbound
    /\ services_memory_manager' = memory_manager
    /\ UNCHANGED <<dollVars, userVars, storeVars, initVars, reqVars>>

\* ------------------------------------------------------------ /talk state
NoBody == [kind |-> "none", content |-> None]

NoPrompt == [persona |-> None, history |-> << >>, utterance |-> None]

\* a request slot before its first request
ReqIdle ==
    [pc |-> "idle", entry |-> "conversation", x_auth_token |-> None,
     child_id |-> None, transcribed_text |-> None,
     relevant_memories |-> << >>, prompt |-> NoPrompt, ai_text |-> None,
     response_audio_bytes |-> NoBody,
     \* the file of tempfile.NamedTemporaryFile(delete=False): none / exists / removed
     tmp_file |-> "none",
     status |-> 0, media_type |-> None, body |-> NoBody,
     \* bookkeeping of the run, read by the properties only
     started |-> << >>, finished |-> << >>, calls |-> << >>, saved |-> {},
     exc |-> "none", cause |-> "none", failed |-> "none", tts_outage |-> FALSE]

InSeq(x, s) == \E k \in 1..Len(s) : s[k] = x

\* one capability invocation, with the state of the store when it is issued
Call(op) == [op |-> op, collection |-> collections, index |-> payload_index]

HasCall(r, op) == \E k \in 1..Len(r.calls) : r.calls[k].op = op

\* the f-string and "\n".join of search_memory: one line per hit, in the
\* order of the hits, keeping user_text and ai_text only
FormatHit(hit) == [said |-> hit.payload.user_text, responded |-> hit.payload.ai_text]
FormatMemories(hits) == [k \in 1..Len(hits) |-> FormatHit(hits[k])]

\* MemoryManager.search_memory, after the embedding and the search succeeded
search_memory(pts, child_id, query_text) ==
    FormatMemories(search(pts, embed_query(query_text), child_id, SearchLimit))

\* a mutant: the payload's two texts are exchanged
PointStructSwapped(pts, child_id, user_text, ai_text) ==
    [id |-> uuid4(pts),
     vector |-> embed_query(user_text),
     payload |-> [child_id |-> child_id, user_text |-> ai_text,
                  ai_text |-> user_text, created_at |-> now(pts)]]

\* models.PointStruct(...) of save_to_memory
PointStruct(pts, child_id, user_text, ai_text) ==
    [id |-> uuid4(pts),
     vector |-> embed_query(user_text),
     payload |-> [child_id |-> child_id, user_text |-> user_text,
                  ai_text |-> ai_text, created_at |-> now(pts)]]

\* MemoryManager.save_to_memory, after the embedding succeeded
save_to_memory(pts, child_id, user_text, ai_text) ==
    upsert(pts, PointStruct(pts, child_id, user_text, ai_text))

\* the f-string prompt of get_gemini_response
Prompt(memories, user_text) ==
    [persona |-> "Abenek", history |-> memories, utterance |-> user_text]

\* tts_client.synthesize_speech: fa-IR-Standard-A, MP3
synthesize_speech(text) == [kind |-> "audio", content |-> text]

\* the except clauses of talk; app/main.py has none, so the framework answers
\* an exception with 500
TalkExcept(r, exc) ==
    IF r.entry = "conversation" /\ exc = "AIServiceError"
    THEN [r EXCEPT !.pc = "done", !.exc = exc, !.status = 503,
                   !.media_type = "application/json",
                   !.body = [kind |-> "json", content |-> "An AI service failed"]]
    ELSE [r EXCEPT !.pc = "done", !.exc = exc, !.status = 500,
                   !.media_type = "application/json",
                   !.body = [kind |-> "json",
                             content |-> "A critical internal error occurred."]]

\* a step of r raised inside a service function: its except clause turns any
\* exception into AIServiceError, which talk then handles; the locals of
\* get_gemini_response end with it
Raise(r, step, op, cause) ==
    TalkExcept([r EXCEPT !.failed = step, !.cause = cause,
                         !.relevant_memories = << >>, !.prompt = NoPrompt,
                         !.calls = IF op = None THEN @ ELSE Append(@, Call(op))],
               "AIServiceError")

\* the ids of new that old does not hold
NewIds(old, new) ==
    {new[k].id : k \in 1..Len(new)} \ {old[k].id : k \in 1..Len(old)}

\* ------------------------------------------------------------ /talk steps
\* a mutant: the token is compared without regard to case
TokenMatchesIgnoreCase(token) == token \in {"tok", "TOK"}

\* x_auth_token != settings.doll_master_auth_token, negated
TokenMatches(token) == token = MasterToken

\* talk, from the request's arrival to the await in transcribe_audio (which
\* has created its temporary file when it awaits the upload's read).  The
\* application serves requests once its startup is over (no call of
\* initialize_memory_manager is in progress) and the router has imported
\* app.services.  app/main.py's talk runs the same steps without a try.
Talk(r) ==
    /\ req[r].pc = "idle"
    /\ running = None
    /\ services_memory_manager # Unbound
    /\ \A i \in InitCallers : init[i].pc \in {"idle", "done", "failed"}
    /\ arrivals < MaxRequests
    /\ arrivals' = arrivals + 1
    /\ \E entry \in Entries, token \in Tokens, child \in Children :
         LET new == [ReqIdle EXCEPT !.entry = entry, !.x_auth_token = token,
                                    !.child_id = child,
                                    !.started = <<"authenticate">>]
         IN req' = [req EXCEPT ![r] =
              IF ~TokenMatches(token)
              THEN [new EXCEPT !.pc = "done", !.status = 401,
                               !.media_type = "application/json",
                               !.body = [kind |-> "json",
                                         content |-> "Invalid authentication token."]]
              ELSE [new EXCEPT !.pc = "read",
                               !.tmp_file = "exists",
                               !.finished = <<"authenticate">>,
                               !.started = <<"authenticate", "transcribe">>]]
    /\ running' = IF req'[r].pc = "done" THEN r ELSE None
    /\ UNCHANGED <<dollVars, userVars, storeVars, initVars, services_memory_manager>>

\* transcribe_audio: audio_file.read() returns and the temporary file is written
ReadAudio(r) ==
    /\ req[r].pc = "read"
    /\ running = None
    /\ \E ok \in BOOLEAN :
         IF ok
         THEN /\ req' = [req EXCEPT ![r].pc = "whisper"]
              /\ running' = r
         ELSE /\ req' = [req EXCEPT ![r] = Raise(@, "transcribe", None, "internal")]
              /\ running' = r
    /\ UNCHANGED <<dollVars, userVars, storeVars, initVars, services_memory_manager, arrivals>>

\* transcribe_audio: openai_client.audio.transcriptions.create, os.remove of
\* the temporary file and the return; the except clause removes nothing
Transcribe(r) ==
    /\ req[r].pc = "whisper"
    /\ running = r
    /\ \/ \E text \in Texts :
            /\ req' = [req EXCEPT ![r].pc = "recall",
                                  ![r].transcribed_text = text,
                                  ![r].tmp_file = "removed",
                                  ![r].calls = Append(@, Call("whisper")),
                                  ![r].finished = Append(@, "transcribe")]
            /\ running' = r
       \/ /\ req' = [req EXCEPT ![r] = Raise(@, "transcribe", "whisper", "capability")]
          /\ running' = r
    /\ UNCHANGED <<dollVars, userVars, storeVars, initVars, services_memory_manager, arrivals>>

\* a mutant: a transcription without a word is turned into a service failure
TranscribeBlankRaises(r) ==
    /\ req[r].pc = "whisper"
    /\ running = r
    /\ \/ \E text \in BlankTexts :
            /\ req' = [req EXCEPT ![r] =
                 Raise([@ EXCEPT !.transcribed_text = text],
                       "transcribe", "whisper", "capability")]
            /\ running' = r
       \/ /\ req' = [req EXCEPT ![r] = Raise(@, "transcribe", "whisper", "capability")]
          /\ running' = r
    /\ UNCHANGED <<dollVars, userVars, storeVars, initVars, services_memory_manager, arrivals>>

\* transcribe_audio when the upload holds no speech: transcription.text is
\* returned as Whisper gave it
TranscribeBlank(r) ==
    /\ req[r].pc = "whisper"
    /\ running = r
    /\ \/ \E text \in BlankTexts :
            /\ req' = [req EXCEPT ![r].pc = "recall",
                                  ![r].transcribed_text = text,
                                  ![r].tmp_file = "removed",
                                  ![r].calls = Append(@, Call("whisper")),
                                  ![r].finished = Append(@, "transcribe")]
            /\ running' = r
       \/ /\ req' = [req EXCEPT ![r] = Raise(@, "transcribe", "whisper", "capability")]
          /\ running' = r
    /\ UNCHANGED <<dollVars, userVars, storeVars, initVars, services_memory_manager, arrivals>>

\* get_gemini_response: memory_manager.search_memory(child_id, query_text)
Recall(r) ==
    /\ req[r].pc = "recall"
    /\ running = r
    /\ LET s == [req[r] EXCEPT !.started = Append(@, "recall")]
       IN IF services_memory_manager = None
          THEN \* None has no attribute search_memory
               /\ req' = [req EXCEPT ![r] = Raise(s, "recall", None, "internal")]
               /\ running' = r
          ELSE \/ /\ req' = [req EXCEPT ![r] =
                       [s EXCEPT !.pc = "generate",
                                 !.relevant_memories =
                                     search_memory(points, s.child_id, s.transcribed_text),
                                 !.calls = @ \o <<Call("embed"), Call("search")>>,
                                 !.finished = Append(@, "recall")]]
                  /\ running' = r
               \/ /\ req' = [req EXCEPT ![r] = Raise(s, "recall", "embed", "capability")]
                  /\ running' = r
               \/ /\ req' = [req EXCEPT ![r] =
                       Raise([s EXCEPT !.calls = Append(@, Call("embed"))],
                             "recall", "search", "capability")]
                  /\ running' = r
    /\ UNCHANGED <<dollVars, userVars, storeVars, initVars, services_memory_manager, arrivals>>

\* a mutant: the turn is written to memory before the model is asked
GenerateCallPersistFirst(r) ==
    /\ req[r].pc = "generate"
    /\ running = r
    /\ points' = save_to_memory(points, req[r].child_id, req[r].transcribed_text, None)
    /\ req' = [req EXCEPT ![r].pc = "generating",
                          ![r].prompt = Prompt(req[r].relevant_memories,
                                               req[r].transcribed_text),
                          ![r].calls = @ \o <<Call("embed"), Call("upsert"),
                                              Call("generate")>>,
                          ![r].saved = @ \cup NewIds(points, points'),
                          ![r].started = Append(@, "generate")]
    /\ running' = None
    /\ UNCHANGED <<dollVars, userVars, collections, payload_index, initVars, services_memory_manager,
                   arrivals>>

\* a mutant: generate_content_async is called without await, the handler goes on
GenerateCallNoWait(r) ==
    /\ req[r].pc = "generate"
    /\ running = r
    /\ req' = [req EXCEPT ![r].pc = "persist",
                          ![r].prompt = Prompt(req[r].relevant_memories,
                                               req[r].transcribed_text),
                          ![r].calls = Append(@, Call("generate")),
                          ![r].started = Append(@, "generate")]
    /\ running' = r
    /\ UNCHANGED <<dollVars, userVars, storeVars, initVars, services_memory_manager, arrivals>>

\* get_gemini_response: the prompt is built and generate_content_async is awaited
GenerateCall(r) ==
    /\ req[r].pc = "generate"
    /\ running = r
    /\ req' = [req EXCEPT ![r].pc = "generating",
                          ![r].prompt = Prompt(req[r].relevant_memories,
                                               req[r].transcribed_text),
                          ![r].calls = Append(@, Call("generate")),
                          ![r].started = Append(@, "generate")]
    /\ running' = None
    /\ UNCHANGED <<dollVars, userVars, storeVars, initVars, services_memory_manager, arrivals>>

\* get_gemini_response: generate_content_async returns or raises, response.text
GenerateReturn(r) ==
    /\ req[r].pc = "generating"
    /\ running = None
    /\ \/ \E reply \in Replies :
            /\ req' = [req EXCEPT ![r].pc = "persist",
                                  ![r].ai_text = reply,
                                  ![r].finished = Append(@, "generate")]
            /\ running' = r
       \/ \E cause \in {"capability", "internal"} :
            \* except GoogleAPICallError / except Exception
            /\ req' = [req EXCEPT ![r] = Raise(@, "generate", None, cause)]
            /\ running' = r
    /\ UNCHANGED <<dollVars, userVars, storeVars, initVars, services_memory_manager, arrivals>>

\* a mutant: a failure of the memory write is caught and the handler goes on
PersistSwallow(r) ==
    /\ req[r].pc = "persist"
    /\ running = r
    /\ LET s == [req[r] EXCEPT !.started = Append(@, "persist")]
       IN \/ /\ points' = save_to_memory(points, s.child_id, s.transcribed_text, s.ai_text)
             /\ req' = [req EXCEPT ![r] =
                  [s EXCEPT !.pc = "synthesize",
                            !.relevant_memories = << >>, !.prompt = NoPrompt,
                            !.calls = @ \o <<Call("embed"), Call("upsert")>>,
                            !.saved = @ \cup NewIds(points, points'),
                            !.finished = Append(@, "persist")]]
             /\ running' = r
          \/ /\ req' = [req EXCEPT ![r] =
                  [s EXCEPT !.pc = "synthesize",
                            !.relevant_memories = << >>, !.prompt = NoPrompt,
                            !.calls = @ \o <<Call("embed"), Call("upsert")>>,
                            !.finished = Append(@, "persist")]]
             /\ running' = r
             /\ UNCHANGED points
    /\ UNCHANGED <<dollVars, userVars, collections, payload_index, initVars, services_memory_manager,
                   arrivals>>

\* get_gemini_response: memory_manager.save_to_memory(child_id, user_text, ai_text)
Persist(r) ==
    /\ req[r].pc = "persist"
    /\ running = r
    /\ LET s == [req[r] EXCEPT !.started = Append(@, "persist")]
       IN \/ /\ points' = save_to_memory(points, s.child_id, s.transcribed_text, s.ai_text)
             /\ req' = [req EXCEPT ![r] =
                  [s EXCEPT !.pc = "synthesize",
                            !.relevant_memories = << >>, !.prompt = NoPrompt,
                            !.calls = @ \o <<Call("embed"), Call("upsert")>>,
                            !.saved = @ \cup NewIds(points, points'),
                            !.finished = Append(@, "persist")]]
             /\ running' = r
          \/ /\ req' = [req EXCEPT ![r] = Raise(s, "persist", "embed", "capability")]
             /\ running' = r
             /\ UNCHANGED points
          \/ /\ req' = [req EXCEPT ![r] =
                  Raise([s EXCEPT !.calls = Append(@, Call("embed"))],
                        "persist", "upsert", "capability")]
             /\ running' = r
             /\ UNCHANGED points
    /\ UNCHANGED <<dollVars, userVars, collections, payload_index, initVars, services_memory_manager,
                   arrivals>>

\* a mutant: when synthesis fails the turn's record is deleted again
SynthesizeRollback(r) ==
    /\ req[r].pc = "synthesize"
    /\ running = r
    /\ LET s == [req[r] EXCEPT !.started = Append(@, "synthesize")]
       IN \/ /\ req' = [req EXCEPT ![r] =
                  [s EXCEPT !.pc = "stream",
                            !.response_audio_bytes = synthesize_speech(s.ai_text),
                            !.calls = Append(@, Call("tts")),
                            !.finished = Append(@, "synthesize")]]
             /\ running' = r
             /\ UNCHANGED points
          \/ \E outage \in BOOLEAN :
               /\ req' = [req EXCEPT ![r] =
                    Raise([s EXCEPT !.tts_outage = outage],
                          "synthesize", "tts", "capability")]
               /\ running' = r
               /\ points' = SelectSeq(points, LAMBDA p : p.id \notin s.saved)
    /\ UNCHANGED <<dollVars, userVars, collections, payload_index, initVars,
                   services_memory_manager, arrivals>>

\* talk: the text-to-speech call (convert_text_to_speech_google is the one
\* services.py defines)
Synthesize(r) ==
    /\ req[r].pc = "synthesize"
    /\ running = r
    /\ LET s == [req[r] EXCEPT !.started = Append(@, "synthesize")]
       IN \/ /\ req' = [req EXCEPT ![r] =
                  [s EXCEPT !.pc = "stream",
                            !.response_audio_bytes = synthesize_speech(s.ai_text),
                            !.calls = Append(@, Call("tts")),
                            !.finished = Append(@, "synthesize")]]
             /\ running' = r
          \/ \E outage \in BOOLEAN :
               \* outage: the capability is down, any further synthesis fails too
               /\ req' = [req EXCEPT ![r] =
                    Raise([s EXCEPT !.tts_outage = outage],
                          "synthesize", "tts", "capability")]
               /\ running' = r
    /\ UNCHANGED <<dollVars, userVars, storeVars, initVars, services_memory_manager, arrivals>>

\* talk: return StreamingResponse(io.BytesIO(response_audio_bytes), "audio/mpeg");
\* an exception of the handler's own statements is no AIServiceError
Stream(r) ==
    /\ req[r].pc = "stream"
    /\ running = r
    /\ LET s == [req[r] EXCEPT !.started = Append(@, "stream")]
       IN \/ req' = [req EXCEPT ![r] =
                  [s EXCEPT !.pc = "done", !.status = 200,
                            !.media_type = "audio/mpeg",
                            !.body = s.response_audio_bytes,
                            !.finished = Append(@, "stream")]]
          \/ req' = [req EXCEPT ![r] =
                  TalkExcept([s EXCEPT !.failed = "stream", !.cause = "internal"],
                             "Exception")]
    /\ running' = r
    /\ UNCHANGED <<dollVars, userVars, storeVars, initVars, services_memory_manager, arrivals>>

\* the response of a finished talk is handed to the server and the request ends
Respond(r) ==
    /\ req[r].pc = "done"
    /\ running = r
    /\ req' = [req EXCEPT ![r] = ReqIdle]
    /\ running' = None
    /\ UNCHANGED <<dollVars, userVars, storeVars, initVars, services_memory_manager, arrivals>>

\* ------------------------------------------------------ register and login
\* the register and login requests that can be in flight together
UserRequests == {"u1", "u2"}
\* what a client may send as email / username; "nomail" is no address
EmailInputs == {"a@x.io", "b@x.io", "nomail"}
\* what a client may send as password; "short" has fewer than 8 characters
Passwords == {"password1", "password2", "short"}
\* the applications that serve register, and those that serve login
RegisterEntries == {"main", "users"}
LoginEntries == {"main", "users", "auth"}

\* Field(min_length=8) of UserCreate.password
MinPasswordLength == 8

NoHash == [scheme |-> None, secret |-> None]
NoUser == [id |-> 0, email |-> None, hashed_password |-> NoHash]
NoToken == [sub |-> None, signed |-> FALSE]

\* a request slot before its first request
UReqIdle ==
    [pc |-> "idle", op |-> None, entry |-> None, email |-> None,
     password |-> None, status |-> 0, detail |-> None,
     access_token |-> NoToken, token_type |-> None,
     \* bookkeeping of the run, read by the properties only
     alone |-> TRUE, registered_before |-> FALSE, users_before |-> 0]

\* EmailStr: the value is an address
ValidEmail(email) == email \in {"a@x.io", "b@x.io"}

\* UserCreate: EmailStr and a password of at least 8 characters
ValidUserCreate(email, password) ==
    ValidEmail(email) /\ Len(password) >= MinPasswordLength

\* pwd_context.hash(password), bcrypt
get_password_hash(password) == [scheme |-> "bcrypt", secret |-> password]

\* pwd_context.verify(plain_password, hashed_password)
verify_password(plain_password, hashed_password) ==
    hashed_password = get_password_hash(plain_password)

\* select(User).filter(User.email == email) ... .scalars().first()
get_user_by_email(rows, email) ==
    IF \E k \in 1..Len(rows) : rows[k].email = email
    THEN rows[CHOOSE k \in 1..Len(rows) :
                 /\ rows[k].email = email
                 /\ \A j \in 1..Len(rows) : rows[j].email = email => k <= j]
    ELSE NoUser

\* jwt.encode of {"sub": ..., "exp": now + 30 minutes} with the secret key
create_access_token(data) == [sub |-> data.sub, signed |-> TRUE]

\* a request that arrives while others are in flight overlaps with them
Overlap(u) ==
    [v \in UserRequests |->
        IF v # u /\ ureq[v].pc # "idle" THEN [ureq[v] EXCEPT !.alone = FALSE]
        ELSE ureq[v]]

\* what a new request notes of the state it arrives in
Arrive(u, op, entry, email, password) ==
    [UReqIdle EXCEPT !.op = op, !.entry = entry, !.email = email,
                     !.password = password,
                     !.alone = \A v \in UserRequests \ {u} : ureq[v].pc = "idle",
                     !.registered_before = get_user_by_email(users, email) # NoUser,
                     !.users_before = Len(users)]

\* POST /users/register arrives: the body is validated as UserCreate (422 when
\* it is not one), then register_user awaits get_user_by_email.  The session
\* dependency get_db yields a session of a reachable database.
Register(u) ==
    /\ ureq[u].pc = "idle"
    /\ userArrivals < MaxUserRequests
    /\ userArrivals' = userArrivals + 1
    /\ \E entry \in RegisterEntries, email \in EmailInputs, password \in Passwords :
         LET new == Arrive(u, "register", entry, email, password)
         IN ureq' = [Overlap(u) EXCEPT ![u] =
              IF ~ValidUserCreate(email, password)
              THEN [new EXCEPT !.pc = "done", !.status = 422,
                               !.detail = "validation error"]
              ELSE [new EXCEPT !.pc = "select"]]
    /\ UNCHANGED <<dollVars, storeVars, initVars, services_memory_manager, reqVars, users>>

\* a mutant: register_user goes on to create_user whatever the lookup returned
RegisterSelectNoCheck(u) ==
    /\ ureq[u].pc = "select"
    /\ ureq[u].op = "register"
    /\ ureq' = [ureq EXCEPT ![u].pc = "commit"]
    /\ UNCHANGED <<dollVars, storeVars, initVars, services_memory_manager, reqVars, users,
                   userArrivals>>

\* register_user: get_user_by_email returns; if db_user: 400
RegisterSelect(u) ==
    /\ ureq[u].pc = "select"
    /\ ureq[u].op = "register"
    /\ ureq' = [ureq EXCEPT ![u] =
          IF get_user_by_email(users, ureq[u].email) # NoUser
          THEN [@ EXCEPT !.pc = "done", !.status = 400,
                         !.detail = "Email already registered"]
          ELSE [@ EXCEPT !.pc = "commit"]]
    /\ UNCHANGED <<dollVars, storeVars, initVars, services_memory_manager, reqVars, users,
                   userArrivals>>

\* a mutant: table users has no unique index on email
RegisterCommitNoUnique(u) ==
    /\ ureq[u].pc = "commit"
    /\ users' = Append(users,
           [id |-> Len(users) + 1, email |-> ureq[u].email,
            hashed_password |-> get_password_hash(ureq[u].password)])
    /\ ureq' = [ureq EXCEPT ![u].pc = "done", ![u].status = 201,
                            ![u].detail = ureq[u].email]
    /\ UNCHANGED <<dollVars, storeVars, initVars, services_memory_manager, reqVars,
                   userArrivals>>

\* create_user: the password is hashed, the row added and committed; the
\* unique index on users.email refuses a second row of an email
\* (IntegrityError, which nothing catches: 500)
RegisterCommit(u) ==
    /\ ureq[u].pc = "commit"
    /\ IF get_user_by_email(users, ureq[u].email) # NoUser
       THEN /\ ureq' = [ureq EXCEPT ![u].pc = "done", ![u].status = 500,
                                    ![u].detail = "Internal Server Error"]
            /\ UNCHANGED users
       ELSE /\ users' = Append(users,
                  [id |-> Len(users) + 1, email |-> ureq[u].email,
                   hashed_password |-> get_password_hash(ureq[u].password)])
            /\ ureq' = [ureq EXCEPT ![u].pc = "done", ![u].status = 201,
                                    ![u].detail = ureq[u].email]
    /\ UNCHANGED <<dollVars, storeVars, initVars, services_memory_manager, reqVars,
                   userArrivals>>

\* POST /users/login or /auth/login arrives with the form's username and
\* password; login_for_access_token awaits get_user_by_email
Login(u) ==
    /\ ureq[u].pc = "idle"
    /\ userArrivals < MaxUserRequests
    /\ userArrivals' = userArrivals + 1
    /\ \E entry \in LoginEntries, email \in EmailInputs, password \in Passwords :
         ureq' = [Overlap(u) EXCEPT ![u] =
              [Arrive(u, "login", entry, email, password) EXCEPT !.pc = "select"]]
    /\ UNCHANGED <<dollVars, storeVars, initVars, services_memory_manager, reqVars, users>>

\* login_for_access_token: get_user_by_email returns; 401 unless the user
\* exists and the password verifies; then the token is created.
\* app/routers/users.py calls auth.create_access_token(data=...) without its
\* parameter settings: TypeError, which nothing catches (500)
LoginSelect(u) ==
    /\ ureq[u].pc = "select"
    /\ ureq[u].op = "login"
    /\ LET user == get_user_by_email(users, ureq[u].email)
       IN ureq' = [ureq EXCEPT ![u] =
            IF user = NoUser \/ ~verify_password(ureq[u].password, user.hashed_password)
            THEN [@ EXCEPT !.pc = "done", !.status = 401,
                           !.detail = "Incorrect email or password"]
            ELSE IF ureq[u].entry = "users"
            THEN [@ EXCEPT !.pc = "done", !.status = 500,
                           !.detail = "Internal Server Error"]
            ELSE [@ EXCEPT !.pc = "done", !.status = 200,
                           !.access_token = create_access_token([sub |-> user.email]),
                           !.token_type = "bearer"]]
    /\ UNCHANGED <<dollVars, storeVars, initVars, services_memory_manager, reqVars, users,
                   userArrivals>>

\* the response of a finished register or login is sent and the request ends
UserRespond(u) ==
    /\ ureq[u].pc = "done"
    /\ ureq' = [ureq EXCEPT ![u] = UReqIdle]
    /\ UNCHANGED <<dollVars, storeVars, initVars, services_memory_manager, reqVars, users,
                   userArrivals>>

\* ------------------------------------------------------ children and dolls
\* the ids of the two registered users, and 0 for a request whose bearer
\* token get_current_user refuses
UserIds == {1, 2}
NoUserId == 0
\* Doll.device_id as sent by a client
DeviceIds == {"d1", "d2"}
\* Doll.child_id IS NULL
NoChild == 0

\* no request yet
DReqIdle ==
    [op |-> None, user |-> NoUserId, device_id |-> None, child_id |-> NoChild,
     status |-> 0, detail |-> None]

\* the two users, registered before
RegisteredUsers ==
    <<[id |-> 1, email |-> "a@x.io", hashed_password |-> get_password_hash("password1")],
      [id |-> 2, email |-> "b@x.io", hashed_password |-> get_password_hash("password2")]>>

\* [child.id for child in current_user.children]
child_ids(user) ==
    {children[k].id : k \in {j \in 1..Len(children) : children[j].user_id = user}}

\* select(Doll).filter(Doll.device_id == device_id) ... .scalars().first(),
\* as the row's position (0 when there is none)
get_doll_by_device_id(rows, device_id) ==
    IF \E k \in 1..Len(rows) : rows[k].device_id = device_id
    THEN CHOOSE k \in 1..Len(rows) :
            /\ rows[k].device_id = device_id
            /\ \A j \in 1..Len(rows) : rows[j].device_id = device_id => k <= j
    ELSE 0

\* POST /children: create_child_for_user(user_id=current_user.id)
CreateChild(user) ==
    /\ Len(children) < MaxChildren
    /\ IF user = NoUserId
       THEN /\ dreq' = [DReqIdle EXCEPT !.op = "create_child", !.status = 401,
                                         !.detail = "Could not validate credentials"]
            /\ UNCHANGED children
       ELSE /\ children' = Append(children, [id |-> Len(children) + 1, user_id |-> user])
            /\ dreq' = [DReqIdle EXCEPT !.op = "create_child", !.user = user,
                                         !.child_id = Len(children) + 1,
                                         !.status = 201]
    /\ UNCHANGED <<userVars, storeVars, initVars, services_memory_manager, reqVars,
                   dolls>>

\* POST /dolls/register: 400 when the device id has a row, else the doll is
\* added with child_id NULL
RegisterDoll(device_id) ==
    /\ IF get_doll_by_device_id(dolls, device_id) # 0
       THEN /\ dreq' = [DReqIdle EXCEPT !.op = "register_doll", !.device_id = device_id,
                                         !.status = 400,
                                         !.detail = "Doll with this device ID already exists"]
            /\ UNCHANGED dolls
       ELSE /\ dolls' = Append(dolls, [id |-> Len(dolls) + 1, device_id |-> device_id,
                                       child_id |-> NoChild])
            /\ dreq' = [DReqIdle EXCEPT !.op = "register_doll", !.device_id = device_id,
                                         !.status = 201]
    /\ UNCHANGED <<userVars, storeVars, initVars, services_memory_manager, reqVars,
                   children>>

\* POST /dolls/assign: 401 without a valid bearer token, 404 when the device
\* id has no row, 403 when the child is not one of the current user's, else
\* assign_doll_to_child sets doll.child_id and commits
AssignDoll(user, device_id, child_id) ==
    /\ LET new == [DReqIdle EXCEPT !.op = "assign_doll", !.user = user,
                                   !.device_id = device_id, !.child_id = child_id]
           k == get_doll_by_device_id(dolls, device_id)
       IN IF user = NoUserId
          THEN /\ dreq' = [new EXCEPT !.status = 401,
                                      !.detail = "Could not validate credentials"]
               /\ UNCHANGED dolls
          ELSE IF k = 0
          THEN /\ dreq' = [new EXCEPT !.status = 404, !.detail = "Doll not found"]
               /\ UNCHANGED dolls
          ELSE IF child_id \notin child_ids(user)
          THEN /\ dreq' = [new EXCEPT !.status = 403,
                                      !.detail = "Child does not belong to the current user"]
               /\ UNCHANGED dolls
          ELSE /\ dolls' = [dolls EXCEPT ![k].child_id = child_id]
               /\ dreq' = [new EXCEPT !.status = 200]
    /\ UNCHANGED <<userVars, storeVars, initVars, services_memory_manager, reqVars,
                   children>>

\* ------------------------------------------------------------ specification
Init ==
    /\ collections = FALSE
    /\ payload_index = FALSE
    /\ points = << >>
    /\ memory_manager = None
    /\ services_memory_manager = Unbound
    /\ init = [i \in InitCallers |-> InitIdle]
    /\ initCalls = 0
    /\ createAttempts = 0
    /\ req = [r \in Requests |-> ReqIdle]
    /\ running = None
    /\ arrivals = 0
    /\ users = << >>
    /\ ureq = [u \in UserRequests |-> UReqIdle]
    /\ userArrivals = 0
    /\ children = << >>
    /\ dolls = << >>
    /\ dreq = DReqIdle

Next ==
    \/ \E i \in InitCallers : InitStart(i)
    \/ \E i \in InitCallers : GetCollections(i)
    \/ \E i \in InitCallers : CreateCollection(i)
    \/ \E i \in InitCallers : CreatePayloadIndex(i)
    \/ \E i \in InitCallers : Publish(i)
    \/ ImportServices
    \/ \E r \in Requests : Talk(r)
    \/ \E r \in Requests : ReadAudio(r)
    \/ \E r \in Requests : Transcribe(r)
    \/ \E r \in Requests : Recall(r)
    \/ \E r \in Requests : GenerateCall(r)
    \/ \E r \in Requests : GenerateReturn(r)
    \/ \E r \in Requests : Persist(r)
    \/ \E r \in Requests : Synthesize(r)
    \/ \E r \in Requests : Stream(r)
    \/ \E r \in Requests : Respond(r)

Spec == Init /\ [][Next]_vars

\* ------------------------------------------- MemoryManager, called directly
\* the state after a successful startup: the collection and its index exist
\* and caller i1 has published the MemoryManager
MemInit ==
    /\ collections = TRUE
    /\ payload_index = TRUE
    /\ points = << >>
    /\ memory_manager = "i1"
    /\ services_memory_manager = "i1"
    /\ init = [i \in InitCallers |->
                 IF i = "i1" THEN [pc |-> "done", err |-> "none"] ELSE InitIdle]
    /\ initCalls = 1
    /\ createAttempts = 1
    /\ req = [r \in Requests |-> ReqIdle]
    /\ running = None
    /\ arrivals = 0
    /\ users = << >>
    /\ ureq = [u \in UserRequests |-> UReqIdle]
    /\ userArrivals = 0
    /\ children = << >>
    /\ dolls = << >>
    /\ dreq = DReqIdle

\* await memory_manager.save_to_memory(child_id, user_text, ai_text), run to
\* its end (the coroutine has no await inside); when the embedding or the
\* upsert raises, the store stays as it is
CallSaveToMemory(child_id, user_text, ai_text) ==
    /\ running = None
    /\ Len(points) < MaxPoints
    /\ points' = save_to_memory(points, child_id, user_text, ai_text)
    /\ UNCHANGED <<dollVars, userVars, collections, payload_index, initVars, services_memory_manager,
                   reqVars>>

\* await memory_manager.search_memory(child_id, query_text) by caller r, run to
\* its end: the transcript it returns, or the exception of the embedding or
\* of the search (search_memory has no try)
CallSearchMemory(r, child_id, query_text) ==
    /\ running = None
    /\ req[r].pc = "idle"
    /\ LET s == [ReqIdle EXCEPT !.pc = "done", !.child_id = child_id,
                                !.transcribed_text = query_text,
                                !.started = <<"recall">>]
       IN \/ req' = [req EXCEPT ![r] =
                  [s EXCEPT !.relevant_memories =
                                search_memory(points, child_id, query_text),
                            !.calls = <<Call("embed"), Call("search")>>,
                            !.finished = <<"recall">>]]
          \/ \E op \in {"embed", "search"} :
               req' = [req EXCEPT ![r] =
                  [s EXCEPT !.calls = IF op = "embed" THEN <<Call("embed")>>
                                      ELSE <<Call("embed"), Call("search")>>,
                            !.exc = "Exception", !.cause = "capability",
                            !.failed = "recall"]]
    /\ running' = r
    /\ UNCHANGED <<dollVars, userVars, storeVars, initVars, services_memory_manager, arrivals>>

MemNext ==
    \/ \E child_id \in Children, user_text \in MemTexts, ai_text \in {"salam"} :
          CallSaveToMemory(child_id, user_text, ai_text)
    \/ \E r \in Requests, child_id \in Children, query_text \in MemTexts :
          CallSearchMemory(r, child_id, query_text)
    \/ \E r \in Requests : Respond(r)

MemSpec == MemInit /\ [][MemNext]_vars

\* ------------------------------------------- the pipeline on silent uploads
\* the application after a successful startup, serving uploads without speech
BlankNext ==
    \/ \E r \in Requests : Talk(r)
    \/ \E r \in Requests : ReadAudio(r)
    \/ \E r \in Requests : TranscribeBlank(r)
    \/ \E r \in Requests : Recall(r)
    \/ \E r \in Requests : GenerateCall(r)
    \/ \E r \in Requests : GenerateReturn(r)
    \/ \E r \in Requests : Persist(r)
    \/ \E r \in Requests : Synthesize(r)
    \/ \E r \in Requests : Stream(r)
    \/ \E r \in Requests : Respond(r)

BlankSpec == MemInit /\ [][BlankNext]_vars

\* ------------------------------------------------- the accounts alone
UsersNext ==
    \/ \E u \in UserRequests : Register(u)
    \/ \E u \in UserRequests : RegisterSelect(u)
    \/ \E u \in UserRequests : RegisterCommit(u)
    \/ \E u \in UserRequests : Login(u)
    \/ \E u \in UserRequests : LoginSelect(u)
    \/ \E u \in UserRequests : UserRespond(u)

UsersSpec == Init /\ [][UsersNext]_vars

\* ------------------------------------------- children and dolls alone
\* the application with two registered users, no child and no doll
DollsInit ==
    /\ collections = FALSE
    /\ payload_index = FALSE
    /\ points = << >>
    /\ memory_manager = None
    /\ services_memory_manager = Unbound
    /\ init = [i \in InitCallers |-> InitIdle]
    /\ initCalls = 0
    /\ createAttempts = 0
    /\ req = [r \in Requests |-> ReqIdle]
    /\ running = None
    /\ arrivals = 0
    /\ users = RegisteredUsers
    /\ ureq = [u \in UserRequests |-> UReqIdle]
    /\ userArrivals = 0
    /\ children = << >>
    /\ dolls = << >>
    /\ dreq = DReqIdle

DollsNext ==
    \/ \E user \in UserIds \cup {NoUserId} : CreateChild(user)
    \/ \E device_id \in DeviceIds : RegisterDoll(device_id)
    \/ \E user \in UserIds \cup {NoUserId}, device_id \in DeviceIds,
          child_id \in 1..MaxChildren :
          AssignDoll(user, device_id, child_id)

DollsSpec == DollsInit /\ [][DollsNext]_vars

\* The event loop runs every coroutine that is ready, so a step that waits
\* for nothing outside the process is taken: the read of the uploaded file,
\* the building of the prompt, the return of the response.  A step that
\* returns from an external capability (Whisper, the embedding, Qdrant, Gemini,
\* text-to-speech) is taken when the capability answers; the clients are built
\* and called without a timeout (OpenAI(api_key), QdrantClient(url, api_key),
\* generate_content_async(prompt), synthesize_speech(...)) and no call is
\* wrapped in asyncio.wait_for, so nothing in the code bounds that wait.
LiveSpec ==
    /\ Spec
    /\ \A r \in Requests :
          /\ WF_vars(ReadAudio(r))
          \* on None the attribute lookup raises before any capability is called
          /\ WF_vars(services_memory_manager = None /\ Recall(r))
          /\ WF_vars(GenerateCall(r))
          /\ WF_vars(Stream(r))
          /\ WF_vars(Respond(r))

\* ---------------------------------------------------------------- claims
Done(r) == req[r].pc = "done"

IsPrefix(s, t) == Len(s) <= Len(t) /\ \A k \in 1..Len(s) : s[k] = t[k]

\* the points a request wrote
SavedPoints(r) == {k \in 1..Len(points) : points[k].id \in req[r].saved}

\* what a rejected request looks like: 401, no call, no step after the check
C1_Rejected(r) ==
    /\ Done(r)
    /\ req[r].status = 401
    /\ req[r].body.kind = "json"
    /\ req[r].calls = << >>
    /\ req[r].started = <<"authenticate">>
    /\ req[r].finished = << >>
    /\ req[r].saved = {}
C1_State ==
    \A r \in Requests :
        (req[r].pc # "idle" /\ req[r].x_auth_token # MasterToken) => C1_Rejected(r)
C1_Frame ==
    \A r \in Requests :
        (req[r].pc = "idle" /\ req'[r].pc # "idle"
            /\ req'[r].x_auth_token # MasterToken)
        => UNCHANGED <<storeVars, initVars, services_memory_manager>>
\* C1: a /talk request whose token is not exactly the master token ends with
\* 401 Unauthorized; no capability (transcription, embedding, search,
\* generation, upsert, synthesis) is invoked for it, no step after the
\* authentication starts, it writes no record, and the step that rejects
\* it changes nothing but the request itself.
C1_AuthGate == []C1_State /\ [][C1_Frame]_vars
C1_Witness ==
    \E r \in Requests :
        /\ Done(r) /\ req[r].x_auth_token = "TOK" /\ req[r].status = 401
        /\ memory_manager # None /\ services_memory_manager # None

\* C2: a request issues its memory write only after its generation call
\* returned a reply, and a request whose generation failed wrote no record;
\* so every stored turn carries a generated reply.
C2_PersistAfterGenerate ==
    /\ \A r \in Requests :
          /\ (HasCall(req[r], "upsert") \/ req[r].saved # {})
                => /\ InSeq("generate", req[r].finished)
                   /\ req[r].ai_text \in Replies
          /\ req[r].failed = "generate"
                => /\ req[r].saved = {}
                   /\ ~HasCall(req[r], "upsert")
                   /\ ~InSeq("persist", req[r].started)
    /\ \A k \in 1..Len(points) : points[k].payload.ai_text \in Replies
C2_Witness ==
    \E r \in Requests :
        /\ Done(r) /\ req[r].failed = "generate" /\ req[r].status = 503
        /\ Len(points) = 1

\* C3 (as claimed): a request of the conversation router that fails with a
\* service failure of a capability, while speech synthesis is not in an
\* outage, is answered with status 503 and an audio body (the apology).
C3_ApologyAudio ==
    \A r \in Requests :
        (Done(r) /\ req[r].entry = "conversation"
            /\ req[r].exc = "AIServiceError" /\ req[r].cause = "capability"
            /\ ~req[r].tts_outage)
        => (req[r].status = 503 /\ req[r].body.kind = "audio")

\* C4 (as claimed): among the service-failure runs of the conversation router,
\* the answer is 500 without audio exactly when synthesis failed for the reply
\* and fails for the apology too (the capability is in an outage).
C4_InternalErrorOnlyWhenApologyFails ==
    \A r \in Requests :
        (Done(r) /\ req[r].entry = "conversation" /\ req[r].exc = "AIServiceError")
        => ((req[r].status = 500 /\ req[r].body.kind # "audio")
              <=> (req[r].failed = "synthesize" /\ req[r].tts_outage))

\* C5 (as claimed): a request that ends on an unexpected internal fault (an
\* exception that no external capability raised) is answered with 500, never
\* with 503.
C5_InternalFaultIs500 ==
    \A r \in Requests :
        (Done(r) /\ req[r].cause = "internal") => req[r].status = 500

\* C6: the steps of a request start and finish in the order authenticate,
\* transcribe, recall, generate, persist, synthesize, stream; a step starts
\* only when all steps before it have finished, at most one step is in
\* progress, and a request answered with 200 has finished all seven.
C6_StepOrder ==
    \A r \in Requests :
        /\ IsPrefix(req[r].started, Order)
        /\ IsPrefix(req[r].finished, Order)
        /\ Len(req[r].finished) <= Len(req[r].started)
        /\ Len(req[r].started) <= Len(req[r].finished) + 1
        /\ req[r].status = 200 => req[r].finished = Order
C6_Witness ==
    \E r, o \in Requests :
        /\ req[r].status = 200
        /\ req[o].pc = "generating"
        /\ Len(req[o].started) = Len(req[o].finished) + 1

C8_RecallOwnChild ==
    \A r \in Requests :
        \A k \in 1..Len(req[r].relevant_memories) :
            \E j \in 1..Len(points) :
                /\ points[j].payload.child_id = req[r].child_id
                /\ FormatHit(points[j]) = req[r].relevant_memories[k]
C8_Witness ==
    \E r \in Requests :
        /\ req[r].pc = "generate"
        /\ req[r].relevant_memories = << >>
        /\ \E j \in 1..Len(points) :
              /\ points[j].payload.child_id # req[r].child_id
              /\ points[j].payload.user_text = req[r].transcribed_text

\* C9 (as claimed): when two callers have each run initialize_memory_manager
\* once against the empty store, with the store reachable throughout, both
\* calls returned without error, the collection and the index exist, and
\* create_collection was attempted once.
C9_ConcurrentInitIdempotent ==
    (/\ initCalls = 2
     /\ \A i \in InitCallers : init[i].pc \in {"done", "failed"}
     /\ \A i \in InitCallers : init[i].err # "unreachable")
    => /\ \A i \in InitCallers : init[i].pc = "done"
       /\ collections /\ payload_index
       /\ createAttempts = 1

\* C10 (as claimed): whenever a request issues a memory search or write, the
\* collection and its child_id index both exist.
C10_IndexBeforeUse ==
    \A r \in Requests :
        \A k \in 1..Len(req[r].calls) :
            req[r].calls[k].op \in {"search", "upsert"}
            => (req[r].calls[k].collection /\ req[r].calls[k].index)

\* the ids of the stored points
PointIds(pts) == {pts[k].id : k \in 1..Len(pts)}

\* what one step may do to the store: nothing, or one insert by a request in
\* its persist step, under an id no stored point has, of that request's turn,
\* with every stored point left as it was
C11_Step ==
    points' # points =>
        /\ Len(points') = Len(points) + 1
        /\ \A k \in 1..Len(points) : points'[k] = points[k]
        /\ points'[Len(points')].id \notin PointIds(points)
        /\ \E r \in Requests :
              /\ req[r].pc = "persist"
              /\ points'[Len(points')].payload.child_id = req[r].child_id
              /\ points'[Len(points')].payload.user_text = req[r].transcribed_text
              /\ points'[Len(points')].payload.ai_text = req[r].ai_text
\* no two stored points share an id, and a search of its child's points finds
\* every stored point
C11_State ==
    /\ \A j, k \in 1..Len(points) : points[j].id = points[k].id => j = k
    /\ \A k \in 1..Len(points) :
          InSeq(points[k], search(points, points[k].vector,
                                  points[k].payload.child_id, Len(points)))
\* C11: every memory write adds exactly one record under a fresh id and leaves
\* every stored record unchanged; so the writes of two requests in flight
\* together for one child, in either order, both stay stored and retrievable.
C11_AppendOnly == []C11_State /\ [][C11_Step]_vars
C11_Witness ==
    /\ Len(points) = 2
    /\ points[1].payload.child_id = points[2].payload.child_id
    /\ points[1].payload.user_text = points[2].payload.user_text
    /\ points[1].payload.ai_text # points[2].payload.ai_text
    /\ \E r \in Requests : req[r].pc = "synthesize" /\ req[r].saved = {points[2].id}

\* C14: a request whose memory write failed (the embedding or the upsert of
\* the persist step raised) ends with the failure answer (503 from the
\* conversation router, 500 from app/main.py), runs no later step and wrote
\* nothing; a request answered with 200 wrote its turn's record, which is
\* in the store.
C14_PersistFailurePropagates ==
    \A r \in Requests :
        /\ req[r].failed = "persist"
              => /\ Done(r)
                 /\ req[r].exc = "AIServiceError"
                 /\ req[r].status = (IF req[r].entry = "conversation" THEN 503 ELSE 500)
                 /\ req[r].body.kind = "json"
                 /\ req[r].saved = {}
                 /\ ~InSeq("synthesize", req[r].started)
        /\ req[r].status = 200
              => /\ req[r].failed = "none"
                 /\ HasCall(req[r], "upsert")
                 /\ \E k \in SavedPoints(r) :
                       /\ points[k].payload.child_id = req[r].child_id
                       /\ points[k].payload.user_text = req[r].transcribed_text
                       /\ points[k].payload.ai_text = req[r].ai_text
C14_Witness ==
    \E r \in Requests :
        /\ Done(r) /\ req[r].failed = "persist" /\ req[r].status = 503
        /\ HasCall(req[r], "upsert") /\ req[r].ai_text \in Replies
        /\ points = << >>

\* C15 (as claimed): every request that entered the pipeline eventually ends
\* with an answer, also when a capability it called never returns.
C15_TimeoutTerminates ==
    \A r \in Requests : (req[r].pc # "idle") ~> Done(r)

\* a request whose next step is the return of a capability call it has made:
\* Whisper, the embedding and the search of recall, Gemini, the embedding and
\* the upsert of persist, text-to-speech
InCapabilityCall(r) ==
    req[r].pc \in {"whisper", "recall", "generating", "persist", "synthesize"}

\* C16 (as claimed): while one request waits for a capability call to return,
\* another request that is ready to go on (its upload has been read) can take
\* its next step.
C16_NotSerialized ==
    \A r, o \in Requests :
        (r # o /\ InCapabilityCall(r) /\ req[o].pc = "read")
        => ENABLED ReadAudio(o)

\* a call that met an unreachable store has failed and is not the published
\* instance
C17_State ==
    \A i \in InitCallers :
        init[i].err = "unreachable"
        => (init[i].pc = "failed" /\ memory_manager # i)
\* the step in which a call meets the unreachable store ends the call and
\* leaves the global as it was; a failed caller goes on only by a new call of
\* initialize_memory_manager, which tests the global again and, finding it
\* None, starts with get_collections
C17_Step ==
    \A i \in InitCallers :
        /\ (init[i].err # "unreachable" /\ init'[i].err = "unreachable")
              => /\ init[i].pc \in {"get_collections", "create_collection", "create_index"}
                 /\ init'[i].pc = "failed"
                 /\ memory_manager' = memory_manager
                 /\ initCalls' = initCalls
        /\ (init[i].pc = "failed" /\ init'[i] # init[i])
              => /\ initCalls' = initCalls + 1
                 /\ memory_manager' = memory_manager
                 /\ init'[i].pc = (IF memory_manager = None THEN "get_collections"
                                                          ELSE "done")
\* C17: when the store is unreachable while the collection is looked up or
\* created, the call of initialize_memory_manager fails at once (no retry),
\* no MemoryManager is published by it, and a later call starts again with
\* the lookup of the collection.
C17_UnreachablePropagates == []C17_State /\ [][C17_Step]_vars
C17_Witness ==
    \E i \in InitCallers :
        /\ init[i].pc = "get_collections"
        /\ initCalls = 2
        /\ memory_manager = None
        /\ collections /\ ~payload_index
        /\ \A j \in InitCallers \ {i} : init[j].pc = "idle"

\* C20 (as claimed): once initialize_memory_manager has published the
\* MemoryManager, a request that reaches its recall step finds that instance
\* under the name app.services uses.
C20_ServicesUseInitialized ==
    \A r \in Requests :
        (memory_manager # None /\ req[r].pc = "recall")
        => services_memory_manager = memory_manager

\* the stored points of a child
ChildPoints(child_id) ==
    {k \in 1..Len(points) : points[k].payload.child_id = child_id}

\* caller r holds what search_memory returned
Recalled(r) == Done(r) /\ req[r].finished = <<"recall">>

Min(a, b) == IF a <= b THEN a ELSE b

\* C12: the transcript search_memory returns has at most 3 lines, as many as
\* the child has stored turns when those are fewer; its lines are turns of
\* distinct stored points of the child, listed by falling similarity to the
\* query, and every point of the child left out is at most as similar as every
\* point listed.
C12_TopThreeRanked ==
    \A r \in Requests :
        Recalled(r) =>
            LET m == req[r].relevant_memories
                qv == embed_query(req[r].transcribed_text)
                S == ChildPoints(req[r].child_id)
            IN /\ Len(m) <= 3
               /\ Len(m) = Min(3, Cardinality(S))
               /\ \E h \in [1..Len(m) -> S] :
                     /\ \A j, k \in 1..Len(m) : h[j] = h[k] => j = k
                     /\ \A k \in 1..Len(m) : m[k] = FormatHit(points[h[k]])
                     /\ \A j, k \in 1..Len(m) :
                           j < k => Score(qv, points[h[j]].vector)
                                      >= Score(qv, points[h[k]].vector)
                     /\ \A o \in S \ {h[k] : k \in 1..Len(m)} :
                           \A k \in 1..Len(m) :
                              Score(qv, points[o].vector)
                                 <= Score(qv, points[h[k]].vector)
C12_Witness ==
    \E r \in Requests :
        /\ Recalled(r)
        /\ req[r].transcribed_text = "hello"
        /\ Cardinality(ChildPoints(req[r].child_id)) = 4
        /\ points[1].payload.user_text = "dog"
        /\ Len(req[r].relevant_memories) = 3
        /\ req[r].relevant_memories[1].said = "hello"
        /\ req[r].relevant_memories[2].said = "hello"
        /\ req[r].relevant_memories[3].said = "cat"

\* C13: a search_memory call for a child that has no stored turn, whatever
\* other children have stored, returns the empty transcript; it raises only
\* when the embedding or the store call itself fails.
C13_EmptyBeforeRemember ==
    \A r \in Requests :
        (Done(r) /\ req[r].started = <<"recall">>
            /\ ChildPoints(req[r].child_id) = {})
        => /\ req[r].relevant_memories = << >>
           /\ (req[r].exc = "none" \/ req[r].cause = "capability")
           /\ req[r].cause # "capability" => Recalled(r)
C13_Witness ==
    \E r \in Requests :
        /\ Recalled(r)
        /\ ChildPoints(req[r].child_id) = {}
        /\ Len(points) >= 3
        /\ \E k \in 1..Len(points) :
              points[k].payload.user_text = req[r].transcribed_text
        /\ req[r].relevant_memories = << >>
        /\ req[r].exc = "none"

UDone(u) == ureq[u].pc = "done"

\* a finished register request that ran with no other request in flight
SequentialRegister(u) ==
    UDone(u) /\ ureq[u].op = "register" /\ ureq[u].alone

\* no email has two rows
OneUserPerEmail ==
    \A j, k \in 1..Len(users) : users[j].email = users[k].email => j = k

\* C18 (as claimed): a sequential register request whose email is already
\* registered is answered with 400 'Email already registered'.
C18_DuplicateEmailIs400 ==
    \A u \in UserRequests :
        (SequentialRegister(u) /\ ureq[u].registered_before)
        => (ureq[u].status = 400 /\ ureq[u].detail = "Email already registered")
\* C18 (amended): a sequential register request whose body is a valid
\* UserCreate (an email address, a password of at least 8 characters) is
\* answered with 400 'Email already registered' and leaves the users as they
\* were when its email is already registered, and with 201 and one new user
\* otherwise; a body that is not valid is answered with 422 whatever the
\* email; at all times there is at most one user per email.
C18_DuplicateValidEmailIs400 ==
    /\ OneUserPerEmail
    /\ \A u \in UserRequests :
          SequentialRegister(u) =>
             IF ~ValidUserCreate(ureq[u].email, ureq[u].password)
             THEN ureq[u].status = 422 /\ Len(users) = ureq[u].users_before
             ELSE IF ureq[u].registered_before
             THEN /\ ureq[u].status = 400
                  /\ ureq[u].detail = "Email already registered"
                  /\ Len(users) = ureq[u].users_before
             ELSE /\ ureq[u].status = 201
                  /\ Len(users) = ureq[u].users_before + 1
                  /\ users[Len(users)].email = ureq[u].email
C18_Witness ==
    \E u \in UserRequests :
        /\ SequentialRegister(u)
        /\ ureq[u].registered_before
        /\ ureq[u].status = 400
        /\ Len(users) = 1
        /\ ~verify_password(ureq[u].password, users[1].hashed_password)

\* the email and password of a finished login are those of a registered user
Registered(u) ==
    \E k \in 1..Len(users) :
        /\ users[k].email = ureq[u].email
        /\ verify_password(ureq[u].password, users[k].hashed_password)

\* C19 (as claimed): a login that runs with no other request in flight is
\* answered with 200 and a bearer token for the user when its email and
\* password are those of a registered user, and with 401 and no token
\* otherwise.
C19_LoginIssuesToken ==
    \A u \in UserRequests :
        (UDone(u) /\ ureq[u].op = "login" /\ ureq[u].alone) =>
            IF Registered(u)
            THEN /\ ureq[u].status = 200
                 /\ ureq[u].token_type = "bearer"
                 /\ ureq[u].access_token = create_access_token([sub |-> ureq[u].email])
            ELSE /\ ureq[u].status = 401
                 /\ ureq[u].access_token = NoToken

\* C21: a request whose transcription is the empty text or a blank goes on as
\* any other: it does not fail in its transcribe step, recall is asked with
\* that very text, the prompt carries it and generation is called, and when
\* no step raises the request is answered with 200 and the synthesized reply
\* and has written a record whose user_text is that text.
C21_BlankForwarded ==
    \A r \in Requests :
        req[r].transcribed_text \in BlankTexts
        => /\ req[r].failed # "transcribe"
           /\ InSeq("transcribe", req[r].finished)
           /\ req[r].pc = "generate"
                 => /\ HasCall(req[r], "search")
                    /\ req[r].relevant_memories =
                          search_memory(points, req[r].child_id, req[r].transcribed_text)
           /\ req[r].pc = "generating"
                 => /\ HasCall(req[r], "generate")
                    /\ req[r].prompt =
                          Prompt(req[r].relevant_memories, req[r].transcribed_text)
           /\ (Done(r) /\ req[r].failed = "none")
                 => /\ req[r].status = 200
                    /\ req[r].body = synthesize_speech(req[r].ai_text)
                    /\ \E k \in SavedPoints(r) :
                          /\ points[k].payload.user_text = req[r].transcribed_text
                          /\ points[k].payload.ai_text = req[r].ai_text
C21_Witness ==
    \E r \in Requests :
        /\ Done(r) /\ req[r].status = 200
        /\ req[r].transcribed_text = ""
        /\ Len(points) = 2
        /\ points[1].payload.user_text = " "
        /\ points[2].payload.user_text = ""
        /\ points[2].id \in req[r].saved

\* a request whose synthesis failed got the failure answer and its record is
\* in the store; no request has written more than one record, and every
\* record a request wrote is still stored
C22_State ==
    \A r \in Requests :
        /\ req[r].failed = "synthesize"
              => /\ Done(r)
                 /\ req[r].exc = "AIServiceError"
                 /\ req[r].status = (IF req[r].entry = "conversation" THEN 503 ELSE 500)
                 /\ req[r].body.kind = "json"
                 /\ Cardinality(req[r].saved) = 1
                 /\ \E k \in SavedPoints(r) :
                       /\ points[k].payload.child_id = req[r].child_id
                       /\ points[k].payload.user_text = req[r].transcribed_text
                       /\ points[k].payload.ai_text = req[r].ai_text
        /\ Cardinality(req[r].saved) <= 1
        /\ Cardinality(SavedPoints(r)) = Cardinality(req[r].saved)
\* a step of a request leaves the collection and its index alone, and leaves
\* the points alone unless it is the request's persist step, which has
\* written nothing before
C22_Step ==
    \A r \in Requests :
        req'[r] # req[r]
        => /\ UNCHANGED <<collections, payload_index>>
           /\ points' # points
                 => (req[r].pc = "persist" /\ req[r].saved = {}
                       /\ Len(points') = Len(points) + 1)
\* C22: when the memory write of a turn succeeded and the synthesis of the
\* reply then fails, the caller gets the failure answer and the turn's
\* record stays in the store; the one insert of its persist step is all a
\* request ever changes in the store.
C22_NoRollback == []C22_State /\ [][C22_Step]_vars
C22_Witness ==
    \E r \in Requests :
        /\ Done(r) /\ req[r].failed = "synthesize" /\ req[r].status = 503
        /\ Len(points) = 1
        /\ req[r].saved = {points[1].id}
        /\ points[1].payload.ai_text = req[r].ai_text

\* C23 (as claimed): once transcribe_audio has finished for a request, by
\* returning the text or by raising AIServiceError, the temporary file it
\* created is no longer on disk.
C23_TempFileRemoved ==
    \A r \in Requests :
        req[r].pc \notin {"idle", "read", "whisper"}
        => req[r].tmp_file # "exists"

\* the rows of an email
RowsOf(email) == {k \in 1..Len(users) : users[k].email = email}

\* a finished register request that passed the lookup and went on to commit
Committed(u) ==
    UDone(u) /\ ureq[u].op = "register" /\ ureq[u].status \in {201, 500}

\* C24: when two register requests with one email have both passed the
\* lookup before either committed, one of them is answered with 201 and the
\* other with an error (500, the commit refused by the unique index), and the
\* email has exactly one row; no email ever has two rows.
C24_ConcurrentRegisterOneUser ==
    /\ \A k, j \in 1..Len(users) : users[k].email = users[j].email => k = j
    /\ \A u, v \in UserRequests :
          (u # v /\ Committed(u) /\ Committed(v) /\ ureq[u].email = ureq[v].email
              /\ ~ureq[u].registered_before /\ ~ureq[v].registered_before)
          => /\ {ureq[u].status, ureq[v].status} = {201, 500}
             /\ Cardinality(RowsOf(ureq[u].email)) = 1
C24_Witness ==
    \E u, v \in UserRequests :
        /\ Committed(u) /\ Committed(v)
        /\ ureq[u].email = ureq[v].email
        /\ ureq[u].password # ureq[v].password
        /\ ureq[u].status = 201 /\ ureq[v].status = 500
        /\ ~ureq[v].registered_before /\ ~ureq[v].alone
        /\ Len(users) = 1

\* the dolls assigned to a child
DollsOf(child_id) == {k \in 1..Len(dolls) : dolls[k].child_id = child_id}

\* the user a child belongs to
OwnerOf(child_id) ==
    {children[k].user_id : k \in {j \in 1..Len(children) : children[j].id = child_id}}

\* C25: after any sequence of doll register and assign operations no two
\* dolls have the same non-null child_id, and an assign that succeeded set
\* the doll's child_id to a child of the user who performed it.
C25_OneDollPerChild ==
    /\ \A j, k \in 1..Len(dolls) :
          (dolls[j].child_id # NoChild /\ dolls[j].child_id = dolls[k].child_id)
          => j = k
    /\ (dreq.op = "assign_doll" /\ dreq.status = 200)
       => /\ OwnerOf(dreq.child_id) = {dreq.user}
          /\ dolls[get_doll_by_device_id(dolls, dreq.device_id)].child_id = dreq.child_id

\* C25, its second half alone: a step changes a doll's child_id only as an
\* assign answered 200 whose child is one of the assigning user's.
C25_AssignOwnChild ==
    [][\A k \in 1..Len(dolls) :
          (k <= Len(dolls') /\ dolls'[k].child_id # dolls[k].child_id)
          => /\ dreq'.op = "assign_doll"
             /\ dreq'.status = 200
             /\ dolls'[k].device_id = dreq'.device_id
             /\ dolls'[k].child_id = dreq'.child_id
             /\ OwnerOf(dreq'.child_id) = {dreq'.user}]_vars

\* C25: two dolls are assigned to one child
C25_TwoDollsOneChild ==
    \E c \in 1..MaxChildren : Cardinality(DollsOf(c)) > 1

====
